---- MODULE Spec2Model ----
(***************************************************************************)
(* State-machine model of MerkleTree (src/src/merkle_tree.ts): a sparse,   *)
(* fixed-depth Merkle tree persisted as one JSON blob in a key-value       *)
(* store.                                                                  *)
(*                                                                         *)
(* Digests are symbolic terms: hash(v) is <<"h", v>> and compress(a, b) is *)
(* <<"c", a, b>>, so two digests are equal exactly when they were built    *)
(* the same way (a collision-free hasher).  A JavaScript Map is a sequence *)
(* of [index, value] entries in insertion order, which is the order Map    *)
(* iteration uses.  The store holds one entry, the blob under the tree's   *)
(* name; its get and put may fail.                                         *)
(***************************************************************************)
EXTENDS Integers, Sequences, FiniteSets, TLC

\* ------------------------------------------------------------------ bounds
\* Spec and SpecFaulty explore the machine exhaustively in a small scope, SpecFaulty
\* with a store that may reject the put of an updateElement; SpecWide is Spec in a
\* wider scope (depth 3, two populated leaves).
MaxDepth == 2        \* Spec, SpecFaulty: the depth argument ranges over 1..MaxDepth
MaxBlocks == 1       \* Spec, SpecFaulty: at most this many distinct leaves are populated
MaxValue == 2        \* Spec, SpecFaulty: non-zero leaf values are 1..MaxValue
WideDepth == 3       \* SpecWide: the depth argument ranges over 1..WideDepth
WideBlocks == 2      \* SpecWide: at most this many distinct leaves are populated
WideValue == 2       \* SpecWide: non-zero leaf values are 1..WideValue
MaxPutFailures == 1  \* SpecFaulty: the store rejects the put of at most this many
                     \* updateElement calls in a row

\* --------------------------------------------------------------- constants
MAX_DEPTH == 32
LEAF_BYTES == 64

zero64 == 0                        \* Buffer.alloc(LEAF_BYTES)
Undefined == <<"undefined">>       \* the JavaScript value undefined
zero32 == <<"zero32">>             \* Buffer.alloc(32), the field initialiser of root

\* ------------------------------------------------------------------ hasher
hash(v) == <<"h", v>>
compress(a, b) == <<"c", a, b>>

\* --------------------------------------------------------------------- Map
MapHas(m, k) == \E j \in 1..Len(m) : m[j].index = k
MapGet(m, k) ==
  IF MapHas(m, k) THEN m[CHOOSE j \in 1..Len(m) : m[j].index = k].value
  ELSE Undefined
MapSet_Append(m, k, v) == Append(m, [index |-> k, value |-> v])
MapSet(m, k, v) ==
  IF MapHas(m, k)
  THEN [j \in 1..Len(m) |-> IF m[j].index = k THEN [index |-> k, value |-> v] ELSE m[j]]
  ELSE Append(m, [index |-> k, value |-> v])
MapKeys(m) == {m[j].index : j \in 1..Len(m)}

\* zeroHashesByLevel[i] of the code; an index past the end reads undefined
ZeroAt(Z, i) == IF i + 1 \in 1..Len(Z) THEN Z[i + 1] ELSE Undefined

\* ------------------------------------------------ generateZeroHashesByLevel
RECURSIVE ZeroLoop(_, _, _)
ZeroLoop(z, i, d) ==
  IF i < d + 1 THEN ZeroLoop(Append(z, compress(z[i], z[i])), i + 1, d) ELSE z

generateZeroHashesByLevel_OffByOne(d) == ZeroLoop(<<hash(zero64)>>, 1, d - 1)

generateZeroHashesByLevel(d) == ZeroLoop(<<hash(zero64)>>, 1, d)

\* ------------------------------------------------------- indexOfParentNode
\* Math.round(index/2) for an odd non-negative index: halves round up
MathRoundHalf(index) == (index + 1) \div 2

indexOfParentNode(index) ==
  IF index % 2 = 0 THEN index \div 2 ELSE MathRoundHalf(index) - 1

SiblingOf(index) == IF index % 2 = 0 THEN index + 1 ELSE index - 1

\* ------------------------------------------------------- generateTreeNodes
\* the inner for-of loop over hashesLevelBefore.entries(), from entry k on
RECURSIVE LevelLoop(_, _, _, _, _)
LevelLoop(hashesLevelBefore, k, cur, processed, zero) ==
  IF k > Len(hashesLevelBefore) THEN cur
  ELSE LET index == hashesLevelBefore[k].index
           h == hashesLevelBefore[k].value
           indexOfSibling == SiblingOf(index)
           hashOfSiblingNode ==
             IF MapHas(hashesLevelBefore, indexOfSibling)
             THEN MapGet(hashesLevelBefore, indexOfSibling)
             ELSE zero
           next ==
             IF ~(indexOfSibling \in processed /\ index \in processed)
             THEN MapSet(cur, indexOfParentNode(index), compress(h, hashOfSiblingNode))
             ELSE cur
       IN LevelLoop(hashesLevelBefore, k + 1, next,
                    processed \cup {index, indexOfSibling}, zero)

\* the outer loop over levels i = 1..depth
RECURSIVE LevelsLoop(_, _, _, _)
LevelsLoop(hs, i, d, Z) ==
  IF i < d + 1
  THEN LevelsLoop(Append(hs, LevelLoop(hs[i], 1, <<>>, {}, ZeroAt(Z, i - 1))), i + 1, d, Z)
  ELSE hs

LeafHashes(blocks) ==
  [k \in 1..Len(blocks) |-> [index |-> blocks[k].index, value |-> hash(blocks[k].value)]]

RootOf(hs, Z) ==
  IF Len(hs[Len(hs)]) = 0 THEN ZeroAt(Z, Len(Z) - 1) ELSE MapGet(hs[Len(hs)], 0)

generateTreeNodes(blocks, Z, d) ==
  LET hs == LevelsLoop(<<LeafHashes(blocks)>>, 1, d, Z)
  IN [hashes |-> hs, root |-> RootOf(hs, Z)]

\* ------------------------------------------------------------- persistTree
toJSON(buf) == [type |-> "Buffer", data |-> buf]    \* Buffer.prototype.toJSON
BufferFrom(json) == json.data                       \* Buffer.from(<toJSON object>)

\* a JavaScript object enumerates integer keys in ascending order
RECURSIVE SortedKeys(_)
SortedKeys(S) ==
  IF S = {} THEN <<>>
  ELSE LET lo == CHOOSE x \in S : \A y \in S : x <= y
       IN <<lo>> \o SortedKeys(S \ {lo})

\* data[i] of persistTree: index -> value.toJSON()
ObjectOf(m) ==
  LET ks == SortedKeys(MapKeys(m))
  IN [j \in 1..Len(ks) |-> [index |-> ks[j], value |-> toJSON(MapGet(m, ks[j]))]]

\* JSON.stringify(data): one object per level, keyed by index
Serialize(hs) == [k \in 1..Len(hs) |-> ObjectOf(hs[k])]

put_WritesOnFailure(store, blob, putOk) == [present |-> TRUE, blob |-> blob]

\* db.put(name, blob): a rejected put leaves the entry as it was
put(store, blob, putOk) == IF putOk THEN [present |-> TRUE, blob |-> blob] ELSE store

\* ---------------------------------------------------- restorePersistedTree
restorePersistedTree(blob) ==
  LET hs == [k \in 1..Len(blob) |->
               [j \in 1..Len(blob[k]) |->
                  [index |-> blob[k][j].index, value |-> BufferFrom(blob[k][j].value)]]]
  IN [hashes |-> hs, depth |-> Len(blob) - 1, root |-> MapGet(hs[Len(hs)], 0)]

\* ------------------------------------------------------------- constructor
\* data is [present |-> BOOLEAN, blob |-> ...]; present = FALSE is undefined
NoData == [present |-> FALSE, blob |-> <<>>]

BadDepth(d) == ~(d >= 1 /\ d <= MAX_DEPTH)

Constructor(d, data) ==
  LET Z == generateZeroHashesByLevel(d)
  IN IF data.present
     THEN LET r == restorePersistedTree(data.blob)
          IN [depth |-> r.depth, dataBlocks |-> <<>>, hashes |-> r.hashes,
              zeroHashesByLevel |-> Z, root |-> r.root]
     ELSE LET g == generateTreeNodes(<<>>, Z, d)
          IN [depth |-> d, dataBlocks |-> <<>>, hashes |-> g.hashes,
              zeroHashesByLevel |-> Z, root |-> g.root]

GetData_ErrorIgnored(store, getOk) == IF store.present THEN store ELSE NoData

\* db.get(name).catch(() => {}): a failed get yields undefined
GetData(store, getOk) == IF getOk /\ store.present THEN store ELSE NoData

\* ------------------------------------------------------------- getHashPath
RECURSIVE PathLoop(_, _, _, _, _, _)
PathLoop(hs, Z, d, i, index, acc) ==
  IF i < d
  THEN LET indexOfSibling == SiblingOf(index)
           own == IF MapHas(hs[i + 1], index) THEN MapGet(hs[i + 1], index) ELSE ZeroAt(Z, i)
           sib == IF MapHas(hs[i + 1], indexOfSibling)
                  THEN MapGet(hs[i + 1], indexOfSibling) ELSE ZeroAt(Z, i)
           path == IF index < indexOfSibling THEN <<own, sib>> ELSE <<sib, own>>
       IN PathLoop(hs, Z, d, i + 1, indexOfParentNode(index), Append(acc, path))
  ELSE acc

getHashPath(t, index) == PathLoop(t.hashes, t.zeroHashesByLevel, t.depth, 0, index, <<>>)

\* ----------------------------------------------------------- updateElement
\* the in-memory part of updateElement: dataBlocks.set, then generateTreeNodes
updateInMemory(t, index, value) ==
  LET blocks == MapSet(t.dataBlocks, index, value)
      g == generateTreeNodes(blocks, t.zeroHashesByLevel, t.depth)
  IN [t EXCEPT !.dataBlocks = blocks, !.hashes = g.hashes, !.root = g.root]

RECURSIVE Pow2(_)
Pow2(n) == IF n = 0 THEN 1 ELSE 2 * Pow2(n - 1)
Indices(d) == 0..(Pow2(d) - 1)

\* ------------------------------------------------------------------- state
VARIABLES
  db,                 \* the store's entry under the tree's name: [present, blob]
  depth,              \* this.depth
  dataBlocks,         \* this.dataBlocks
  hashes,             \* this.hashes, hashes[i + 1] is level i
  zeroHashesByLevel,  \* this.zeroHashesByLevel
  root,               \* this.root
  origin,             \* "none" before the first open, then "fresh" or "restored"
  failedPuts,         \* updateElement calls in a row whose put the store failed
  last                \* the last new that returned a tree or the last updateElement,
                      \* and what its caller observed

vars == <<db, depth, dataBlocks, hashes, zeroHashesByLevel, root, origin, failedPuts, last>>

Tree == [depth |-> depth, dataBlocks |-> dataBlocks, hashes |-> hashes,
         zeroHashesByLevel |-> zeroHashesByLevel, root |-> root]

SetTree(t) ==
  /\ depth' = t.depth
  /\ dataBlocks' = t.dataBlocks
  /\ hashes' = t.hashes
  /\ zeroHashesByLevel' = t.zeroHashesByLevel
  /\ root' = t.root

NoReturn == <<"none">>      \* the call returned no digest (it was rejected)

NoCall == [op |-> "none", index |-> 0, value |-> 0, depth |-> 0, getOk |-> TRUE,
           ok |-> TRUE, returned |-> NoReturn, puts |-> 0, hadBlob |-> FALSE,
           repeat |-> FALSE]

Init ==
  /\ db = NoData
  /\ depth = 0
  /\ dataBlocks = <<>>
  /\ hashes = <<>>
  /\ zeroHashesByLevel = <<>>
  /\ root = zero32
  /\ origin = "none"
  /\ failedPuts = 0
  /\ last = NoCall

\* MerkleTree.new whose constructor throws Error('Bad depth'): nothing is built or written
NewBadDepth(d, getOk) ==
  /\ BadDepth(d)
  /\ GetData(db, getOk) \in {db, NoData}
  /\ UNCHANGED vars

\* MerkleTree.new: get, construct (restore or initialise), persist, return the tree;
\* when the put rejects, new rejects: the caller gets no tree and nothing was written
New(d, getOk, putOk) ==
  /\ ~BadDepth(d)
  /\ LET data == GetData(db, getOk)
         t == Constructor(d, data)
     IN IF putOk
        THEN /\ db' = put(db, Serialize(t.hashes), putOk)
             /\ SetTree(t)
             /\ origin' = IF data.present THEN "restored" ELSE "fresh"
             /\ failedPuts' = 0
             /\ last' = [NoCall EXCEPT !.op = "new", !.depth = d, !.getOk = getOk,
                                       !.puts = 1, !.hadBlob = db.present]
        ELSE /\ db' = put(db, Serialize(t.hashes), putOk)
             /\ UNCHANGED <<depth, dataBlocks, hashes, zeroHashesByLevel, root,
                            origin, failedPuts, last>>

\* updateElement: set the block, rebuild, persist, return the root
UpdateElement(index, value, putOk) ==
  /\ origin # "none"
  /\ index \in Indices(depth)
  /\ putOk \/ failedPuts < MaxPutFailures
  /\ LET t == updateInMemory(Tree, index, value)
     IN /\ SetTree(t)
        /\ db' = put(db, Serialize(t.hashes), putOk)
        /\ last' = [NoCall EXCEPT !.op = "updateElement", !.index = index, !.value = value,
                      !.ok = putOk, !.puts = 1,
                      !.returned = IF putOk THEN t.root ELSE NoReturn,
                      !.repeat = (last.op = "updateElement" /\ last.ok
                                  /\ last.index = index /\ last.value = value)]
  /\ failedPuts' = IF putOk THEN 0 ELSE failedPuts + 1
  /\ UNCHANGED origin

\* getRoot and getHashPath read the tree and change nothing
GetRoot ==
  /\ origin # "none"
  /\ root = Tree.root
  /\ UNCHANGED vars

GetHashPath(index) ==
  /\ origin # "none"
  /\ index \in Indices(depth)
  /\ Len(getHashPath(Tree, index)) >= 0
  /\ UNCHANGED vars

DepthArgs(D) == (0..D) \cup {MAX_DEPTH + 1}

\* the distinct leaves populated once (index, value) is set
Populated(index) == Cardinality(MapKeys(dataBlocks) \cup {index})

\* updateElement while it keeps at most maxBlocks leaves populated
BoundedUpdate(maxBlocks, index, value, putOk) ==
  /\ Populated(index) <= maxBlocks
  /\ UpdateElement(index, value, putOk)

\* the calls a caller can make; the store may reject the put of an updateElement
\* only when putOutcomes holds FALSE
Calls(maxDepth, maxBlocks, maxValue, putOutcomes) ==
  \/ \E d \in DepthArgs(maxDepth), getOk \in BOOLEAN : NewBadDepth(d, getOk)
  \/ \E d \in DepthArgs(maxDepth), getOk \in BOOLEAN, putOk \in BOOLEAN : New(d, getOk, putOk)
  \/ \E index \in Indices(maxDepth), value \in 1..maxValue, putOk \in putOutcomes :
       BoundedUpdate(maxBlocks, index, value, putOk)
  \/ GetRoot
  \/ \E index \in Indices(maxDepth) : GetHashPath(index)

Next == Calls(MaxDepth, MaxBlocks, MaxValue, {TRUE})

Spec == Init /\ [][Next]_vars

NextWide == Calls(WideDepth, WideBlocks, WideValue, {TRUE})

SpecWide == Init /\ [][NextWide]_vars

NextFaulty == Calls(MaxDepth, MaxBlocks, MaxValue, BOOLEAN)

SpecFaulty == Init /\ [][NextFaulty]_vars

\* ------------------------------------------------- reference constructions
\* Z[i] by the recurrence alone
RECURSIVE ZRef(_)
ZRef(i) == IF i = 0 THEN hash(zero64) ELSE compress(ZRef(i - 1), ZRef(i - 1))

LeafValue(blocks, index) == IF MapHas(blocks, index) THEN MapGet(blocks, index) ELSE zero64

\* node p of level `level` of the dense tree over blocks: lower-index child on the left
RECURSIVE DenseNode(_, _, _)
DenseNode(blocks, level, p) ==
  IF level = 0 THEN hash(LeafValue(blocks, p))
  ELSE compress(DenseNode(blocks, level - 1, 2 * p), DenseNode(blocks, level - 1, 2 * p + 1))

DenseRoot(blocks, d) == DenseNode(blocks, d, 0)

\* folding a hash path from a seed: [ok, digest], ok when the running digest sat on
\* the side given by the parity of the index at every level
RECURSIVE FoldPath(_, _, _, _)
FoldPath(path, i, index, acc) ==
  IF i > Len(path) THEN [ok |-> TRUE, digest |-> acc]
  ELSE LET side == IF index % 2 = 0 THEN 1 ELSE 2
       IN IF path[i][side] # acc THEN [ok |-> FALSE, digest |-> acc]
          ELSE FoldPath(path, i + 1, index \div 2, compress(path[i][1], path[i][2]))

Perms(s) ==
  LET n == Len(s)
      bij == {f \in [1..n -> 1..n] : \A a, b \in 1..n : a # b => f[a] # f[b]}
  IN {[i \in 1..n |-> s[f[i]]] : f \in bij}

Entries(m) == {m[j] : j \in 1..Len(m)}
EmptyLevels(d) == [k \in 1..(d + 1) |-> <<>>]

\* the tree a caller gets when opening the stored blob with depth argument d
Reopened(d) == Constructor(d, GetData(db, TRUE))

\* ------------------------------------------------------------------ claims

\* C1: starting from a freshly opened empty tree, after one updateElement(index, v)
\* the root (and the root the call returned) is the root of the dense tree with
\* hash(v) at leaf index, hash(zero64) at every other leaf, lower-index child on the left.
C1_SingleUpdateMatchesDenseRoot ==
  (origin = "fresh" /\ last.op = "updateElement" /\ last.ok /\ Len(dataBlocks) = 1)
    => /\ root = DenseRoot(dataBlocks, depth)
       /\ last.returned = root

\* C2: hash-path soundness: in every state reached by updates on a freshly opened
\* tree, for every in-range index the path has exactly depth pairs and folding it from
\* hash(leaf value or zero64), on the side the index parity gives at each level,
\* yields the root.
C2_HashPathFoldsToRoot ==
  origin = "fresh" =>
    \A index \in Indices(depth) :
      LET path == getHashPath(Tree, index)
          fold == FoldPath(path, 1, index, hash(LeafValue(dataBlocks, index)))
      IN Len(path) = depth /\ fold.ok /\ fold.digest = root

\* C3: order-independence: the root and the cached nodes of a freshly opened tree
\* after a set of updates are the ones any other insertion order of the same
\* (index, value) assignments rebuilds.
C3_OrderIndependent ==
  origin = "fresh" =>
    \A blocks \in Perms(dataBlocks) :
      LET g == generateTreeNodes(blocks, zeroHashesByLevel, depth)
      IN /\ g.root = root
         /\ \A k \in 1..Len(hashes) : Entries(g.hashes[k]) = Entries(hashes[k])

\* C4: persistence round trip: whenever the last persist of the instance completed,
\* a tree opened on the same store with the same depth argument has the same root
\* and the same hash path for every in-range index.
C4_RoundTrip ==
  (origin # "none" /\ failedPuts = 0) =>
    LET t == Reopened(Len(zeroHashesByLevel) - 1)
    IN /\ t.root = root
       /\ \A index \in Indices(depth) : getHashPath(t, index) = getHashPath(Tree, index)

\* C5: leaf-cache invariant: every entry of level 0 of the node cache is the hash of
\* the data block at its index, or of zero64 when the block is absent.
C5_LeafCacheInvariant ==
  origin # "none" =>
    \A j \in 1..Len(hashes[1]) :
      hashes[1][j].value = hash(LeafValue(dataBlocks, hashes[1][j].index))

\* a step that is the updateElement call recorded in last'
C6_UpdateStep ==
  last'.op = "updateElement" /\ UpdateElement(last'.index, last'.value, last'.ok)

\* C6: persist failure: an updateElement whose put fails returns no root, has already
\* advanced the in-memory state (block set, cache rebuilt, new root) and leaves the
\* stored blob as it was; an updateElement whose put succeeds leaves the stored blob
\* equal to the serialization of the in-memory cache and returns the root.
C6_PersistFailure ==
  [][C6_UpdateStep =>
       IF last'.ok
       THEN /\ db' = [present |-> TRUE, blob |-> Serialize(hashes')]
            /\ last'.returned = root'
       ELSE /\ last'.returned = NoReturn
            /\ MapGet(dataBlocks', last'.index) = last'.value
            /\ hashes' = generateTreeNodes(dataBlocks', zeroHashesByLevel, depth).hashes
            /\ root' = generateTreeNodes(dataBlocks', zeroHashesByLevel, depth).root
            /\ db' = db]_vars

\* an update whose put failed: memory is ahead of the store
C6_Diverged ==
  /\ last.op = "updateElement" /\ ~last.ok /\ failedPuts > 0
  /\ MapGet(dataBlocks, last.index) = last.value
  /\ db.blob # Serialize(hashes)

PathDefined(path) == \A i \in 1..Len(path) : path[i][1] # Undefined /\ path[i][2] # Undefined

\* C7: persisted depth wins: a tree restored from a blob with any depth argument
\* behaves as one restored with the persisted depth: same depth, same root, the same
\* hash paths of defined digests, and the same root after any update.
C7_PersistedDepthWins ==
  (last.op = "new" /\ origin = "restored") =>
    LET t0 == Reopened(Len(db.blob) - 1)
    IN /\ depth = t0.depth
       /\ root = t0.root
       /\ \A index \in Indices(depth) :
            /\ getHashPath(Tree, index) = getHashPath(t0, index)
            /\ Len(getHashPath(Tree, index)) = depth
            /\ PathDefined(getHashPath(Tree, index))
       /\ \A index \in Indices(depth), value \in 1..WideValue :
            updateInMemory(Tree, index, value).root = updateInMemory(t0, index, value).root

\* C8: restore fallback: a new whose get found no blob or failed returns the empty
\* tree of the caller's depth (empty cache, root Z[depth]) after exactly one put, of
\* the empty tree's serialization.
C8_RestoreFallback ==
  (last.op = "new" /\ (~last.getOk \/ ~last.hadBlob)) =>
    /\ origin = "fresh"
    /\ depth = last.depth
    /\ dataBlocks = <<>>
    /\ hashes = EmptyLevels(last.depth)
    /\ root = ZeroAt(zeroHashesByLevel, last.depth)
    /\ Len(zeroHashesByLevel) = last.depth + 1
    /\ last.puts = 1
    /\ db = [present |-> TRUE, blob |-> EmptyLevels(last.depth)]

\* the get failed although a blob was stored
C8_GetFailedOverBlob == last.op = "new" /\ ~last.getOk /\ last.hadBlob

\* C9: empty-tree root: a tree freshly initialised on a store with no blob has root
\* Z[depth] of the recurrence Z[0] = hash(zero64), Z[i] = compress(Z[i-1], Z[i-1]).
C9_EmptyTreeRoot ==
  (last.op = "new" /\ ~last.hadBlob) => (depth = last.depth /\ root = ZRef(depth))

C9_FreshOnEmptyStore == last.op = "new" /\ ~last.hadBlob /\ last.getOk /\ depth = MaxDepth

\* C10: idempotence: updateElement(index, v) right after a completed
\* updateElement(index, v) returns the same root and leaves the root, the node cache
\* and the stored blob as they were.
C10_Idempotent ==
  [][(last.op = "updateElement" /\ last.ok
      /\ UpdateElement(last.index, last.value, TRUE))
       => /\ last'.returned = last.returned
          /\ root' = root
          /\ hashes' = hashes
          /\ db' = db]_vars

C10_RepeatedUpdate == last.op = "updateElement" /\ last.ok /\ last.repeat

====
